---- MODULE Spec2Model ----
(***************************************************************************)
(* Model of organizer.py: the extension classifier, organize_file, the     *)
(* initial scan, the watchdog observer thread and main's start-up and      *)
(* shutdown.  Strings are sequences of character codes; a path is a        *)
(* sequence of components; the filesystem is a function from the paths     *)
(* that exist to -1 (a directory) or to the content id (> 0) of a regular  *)
(* file.                                                                   *)
(***************************************************************************)
EXTENDS Integers, Sequences, FiniteSets, TLC

VARIABLES
    fs,              \* the filesystem: existing path -> -1 (directory) | content id
    clock,           \* seconds elapsed on the wall clock read by datetime.now()
    log,             \* organizer.log: number of lines written, per kind of line
    out,             \* number of lines echoed to the console (stdout and stderr)
    verbose,         \* args.verbose
    dry_run,         \* args.dry_run
    no_initial_scan, \* args.no_initial_scan
    destinations,    \* config['destinations']: ordered <<folder, extensions>> pairs
    pc,              \* where the main thread is in main()
    todo,            \* entries of os.listdir's result the scan loop has not visited
    listing,         \* what os.listdir returned (history), as name -> node
    visits,          \* how often the scan loop called organize_file, per entry
    observer,        \* "none" | "running" | "stopped" | "dead" | "killed"
    queue,           \* creation events the observer has queued, oldest first
    opc,             \* per thread: where it is inside organize_file
    arg,             \* per thread: file_path of the running organize_file call
    dfolder,         \* per thread: dest_folder_path
    dfile,           \* per thread: dest_file_path
    raised,          \* threads out of which an exception of organize_file propagated
    interrupted,     \* a KeyboardInterrupt was delivered to the main thread
    nextId,          \* content id the next created file gets
    creates,         \* files created in the source folder since start-up
    removes,         \* files removed from the source folder by the user since start-up
    cl_e,            \* classifier run: the extension given
    cl_r             \* classifier run: <<>> before the call, <<result>> after it

vars == <<fs, clock, log, out, verbose, dry_run, no_initial_scan, destinations, pc,
          todo, listing, visits, observer, queue, opc, arg, dfolder, dfile, raised,
          interrupted, nextId, creates, removes, cl_e, cl_r>>

---------------------------------------------------------------------------
(* Bounds *)

MaxCreates == 2
MaxRemoves == 1
MaxClock == 1
MaxExtLen == 2

---------------------------------------------------------------------------
(* Strings *)

\* Python's None
None == <<0>>

\* the characters extensions are drawn from: . J j P p
ExtChars == {46, 74, 106, 80, 112}

RECURSIVE StringsUpTo(_)
StringsUpTo(n) ==
    IF n = 0 THEN {<<>>}
    ELSE LET shorter == StringsUpTo(n - 1)
         IN  shorter \cup {Append(s, c) : s \in {x \in shorter : Len(x) = n - 1}, c \in ExtChars}

\* str.lower on one character and on a string
lower_char(c) == IF c >= 65 /\ c <= 90 THEN c + 32 ELSE c

lower(s) == [i \in 1..Len(s) |-> lower_char(s[i])]

\* str.rfind of one character: the last position holding it, 0 when there is none
rfind(s, c) ==
    LET hits == {i \in 1..Len(s) : s[i] = c}
    IN  IF hits = {} THEN 0 ELSE CHOOSE i \in hits : \A j \in hits : j <= i

\* os.path.splitext on a file name: <<root, ext>>.  The extension starts at the
\* last dot, unless only dots come before that dot.
splitext(name) ==
    LET dot == rfind(name, 46)
    IN  IF dot > 0 /\ \E i \in 1..(dot - 1) : name[i] # 46
        THEN <<SubSeq(name, 1, dot - 1), SubSeq(name, dot, Len(name))>>
        ELSE <<name, <<>>>>

\* a number as `width` decimal digits, zero padded (strftime's %Y %m %d %H %M %S)
RECURSIVE digits(_, _)
digits(n, width) ==
    IF width = 0 THEN <<>> ELSE Append(digits(n \div 10, width - 1), 48 + (n % 10))

\* datetime.now().strftime('%Y%m%d%H%M%S') when `t` seconds have passed since
\* 2026-11-02 12:00:00
strftime(t) ==
    digits(2026, 4) \o digits(11, 2) \o digits(2, 2) \o digits(12, 2)
        \o digits((t \div 60) % 60, 2) \o digits(t % 60, 2)

---------------------------------------------------------------------------
(* Paths *)

\* config['source_folder'] after expanduser: /s
source_folder == << <<47, 115>> >>

\* the home directory expanduser substitutes: /h
home == << <<47, 104>> >>

isabs(name) == Len(name) > 0 /\ name[1] = 47

\* os.path.join of a directory path and one name
join(dir, name) == IF isabs(name) THEN <<name>> ELSE Append(dir, name)

basename(path) == path[Len(path)]

dirname(path) == SubSeq(path, 1, Len(path) - 1)

\* os.path.expanduser: a path that begins with ~ has it replaced by the home directory
expanduser(path) ==
    IF Len(path) > 0 /\ Len(path[1]) > 0 /\ path[1][1] = 126
    THEN IF Len(path[1]) = 1 THEN home \o Tail(path)
         ELSE home \o <<Tail(path[1])>> \o Tail(path)
    ELSE path

---------------------------------------------------------------------------
(* Classifier *)

\* faulty variant: the extension is compared as given, without .lower()
RECURSIVE first_folder_as_given(_, _, _)
first_folder_as_given(file_extension, dests, i) ==
    IF i > Len(dests) THEN None
    ELSE IF file_extension \in dests[i][2] THEN dests[i][1]
    ELSE first_folder_as_given(file_extension, dests, i + 1)

\* the loop of get_destination_folder from position i of the map on
RECURSIVE first_folder(_, _, _)
first_folder(file_extension, dests, i) ==
    IF i > Len(dests) THEN None
    ELSE IF lower(file_extension) \in dests[i][2] THEN dests[i][1]
    ELSE first_folder(file_extension, dests, i + 1)

get_destination_folder(file_extension, dests) == first_folder(file_extension, dests, 1)

\* `if dest_folder_name:` is false for None and for the empty string
truthy(folder) == folder # None /\ folder # <<>>

---------------------------------------------------------------------------
(* Filesystem *)

exists(f, path) == path \in DOMAIN f

isfile(f, path) == path \in DOMAIN f /\ f[path] > 0

isdir(f, path) == path \in DOMAIN f /\ f[path] = -1

\* os.listdir: the names of the immediate entries of a directory
listdir(f, dir) == {basename(p) : p \in {q \in DOMAIN f : Len(q) = Len(dir) + 1 /\ dirname(q) = dir}}

\* the path itself and every ancestor of it
prefixes(path) == {SubSeq(path, 1, n) : n \in 1..Len(path)}

\* os.makedirs(path, exist_ok=True) returns: nothing but directories on the way
makedirs_ok(f, path) == \A q \in prefixes(path) : q \in DOMAIN f => f[q] = -1

makedirs(f, path) ==
    [q \in DOMAIN f \cup prefixes(path) |-> IF q \in DOMAIN f THEN f[q] ELSE -1]

\* shutil.move(src, dst): into dst when dst is a directory, else onto dst
real_dst(f, src, dst) == IF isdir(f, dst) THEN join(dst, basename(src)) ELSE dst

\* shutil.move returns: the source is there, the target's directory is there, and
\* a move into a directory finds no entry of the source's name in it
move_ok(f, src, dst) ==
    /\ exists(f, src)
    /\ isdir(f, dirname(real_dst(f, src, dst)))
    /\ isdir(f, dst) => ~exists(f, real_dst(f, src, dst))

\* os.rename replaces a regular file that holds the target name
move(f, src, dst) ==
    LET to == real_dst(f, src, dst)
    IN  [q \in (DOMAIN f \ {src}) \cup {to} |-> IF q = to THEN f[src] ELSE f[q]]

remove(f, path) == [q \in DOMAIN f \ {path} |-> f[q]]

create(f, path, node) == [q \in DOMAIN f \cup {path} |-> IF q = path THEN node ELSE f[q]]

---------------------------------------------------------------------------
(* The configuration and the files of the model *)

ext_j == <<46, 106>>
ext_p == <<46, 112>>

\* a folder relative to the source folder, and a folder given as an absolute path
folder_i == <<105>>
folder_d == <<47, 100>>

n_aJ == <<97, 46, 74>>
n_bp == <<98, 46, 112>>
n_ct == <<99, 46, 116>>
n_dJ == <<100, 46, 74>>

\* destinations: {i: [.j], /d: [.p]}
MainMap == << <<folder_i, {ext_j}>>, <<folder_d, {ext_p}>> >>

\* the destination maps the classifier is run on
DestMaps ==
    { MainMap,
      << <<folder_i, {ext_j, ext_p}>>, <<folder_d, {ext_p}>> >>,
      << <<folder_d, {ext_p}>>, <<folder_i, {ext_j, ext_p}>> >>,
      << <<folder_i, {}>>, <<folder_d, {ext_j}>> >>,
      << <<folder_d, {<<46, 106, 112>>, <<46>>}>> >>,
      << >> }

\* a source folder that holds the given <<name, node>> entries
source_with(entries) ==
    (source_folder :> -1) @@
    [p \in {join(source_folder, e[1]) : e \in entries} |->
        (CHOOSE e \in entries : join(source_folder, e[1]) = p)[2]]

\* the filesystems the program may find at start-up.  Regular files carry a
\* content id; d.J is a subdirectory; i is the folder <source>/i.
InitialFilesystems ==
    { \* no source folder yet
      <<>>,
      \* a.J, b.p and c.t, no destination folder yet
      source_with({<<n_aJ, 1>>, <<n_bp, 2>>, <<n_ct, 3>>}),
      \* a.J, and i already holds another a.J
      source_with({<<n_aJ, 1>>, <<folder_i, -1>>})
          @@ (Append(join(source_folder, folder_i), n_aJ) :> 4),
      \* a.J and c.t, and i is an empty directory
      source_with({<<n_aJ, 1>>, <<n_ct, 3>>, <<folder_i, -1>>}),
      \* a.J and the subdirectory d.J, and i is a regular file
      source_with({<<n_aJ, 1>>, <<n_dJ, -1>>, <<folder_i, 5>>}) }

\* the names of the files the user creates while the program runs
CreateNames == {n_aJ, n_ct}

Threads == {"main", "obs"}

LogKinds == {"created_source", "scan_start", "scan_complete", "duplicate", "moving",
             "success", "error", "watching", "stopped"}

Idle == [t \in Threads |-> "idle"]
NoPath == [t \in Threads |-> <<>>]

InitShared ==
    /\ clock = 0
    /\ log = [k \in LogKinds |-> 0]
    /\ out = 0
    /\ todo = {}
    /\ listing = <<>>
    /\ visits = <<>>
    /\ observer = "none"
    /\ queue = <<>>
    /\ opc = Idle
    /\ arg = NoPath
    /\ dfolder = NoPath
    /\ dfile = NoPath
    /\ raised = {}
    /\ interrupted = FALSE
    /\ nextId = 6
    /\ creates = 0
    /\ removes = 0

Init ==
    /\ InitShared
    /\ fs \in InitialFilesystems
    /\ verbose \in BOOLEAN
    /\ dry_run \in BOOLEAN
    /\ no_initial_scan \in BOOLEAN
    /\ destinations = MainMap
    /\ pc = "start"
    /\ cl_e = <<>>
    /\ cl_r = <<>>

---------------------------------------------------------------------------
(* organize_file, one step per filesystem call *)

Log(kind) == [log EXCEPT ![kind] = @ + 1]

echo(cond) == IF cond THEN out + 1 ELSE out

\* organize_file returns in thread t
Return(t) ==
    /\ opc' = [opc EXCEPT ![t] = "idle"]
    /\ arg' = [arg EXCEPT ![t] = <<>>]
    /\ dfolder' = [dfolder EXCEPT ![t] = <<>>]
    /\ dfile' = [dfile EXCEPT ![t] = <<>>]

\* the process ends: an exception leaves main(), the daemon observer thread dies
ProcessDies ==
    /\ pc' = "crashed"
    /\ opc' = Idle
    /\ arg' = NoPath
    /\ dfolder' = NoPath
    /\ dfile' = NoPath
    /\ observer' = IF observer \in {"running", "stopped"} THEN "killed" ELSE observer

\* thread t may take a step of the organize_file call it is in
Runs(t) ==
    IF t = "main" THEN pc \notin {"crashed", "done"}
    ELSE observer \in {"running", "stopped"}

\* faulty variant: os.path.exists in place of os.path.isfile
is_any_entry(f, path) == exists(f, path)

\* line 31: os.path.isfile(file_path)
is_regular_file(f, path) == isfile(f, path)

\* faulty variant: every folder name is joined to the source folder by concatenation
dest_folder_path_joined(folder) == expanduser(Append(source_folder, folder))

\* lines 38-41: dest_folder_path
dest_folder_path(folder) ==
    expanduser(IF ~isabs(folder) THEN join(source_folder, folder) ELSE <<folder>>)

\* lines 31-41: the file check, the classification and the destination directory
organize_check(t) ==
    /\ opc[t] = "isfile"
    /\ Runs(t)
    /\ LET folder == get_destination_folder(splitext(basename(arg[t]))[2], destinations)
       IN  IF is_regular_file(fs, arg[t]) /\ truthy(folder)
           THEN /\ opc' = [opc EXCEPT ![t] = "makedirs"]
                /\ dfolder' = [dfolder EXCEPT ![t] = dest_folder_path(folder)]
                /\ UNCHANGED <<arg, dfile>>
           ELSE Return(t)
    /\ UNCHANGED <<fs, clock, log, out, verbose, dry_run, no_initial_scan, destinations,
                   pc, todo, listing, visits, observer, queue, raised, interrupted,
                   nextId, creates, removes, cl_e, cl_r>>

\* faulty variant: the directory is created in a dry run too
makedirs_always == TRUE

\* line 43: the guard of os.makedirs
makedirs_wanted == ~dry_run

\* the creation events the observer queues for directories made in the source folder
dir_events(before, after) ==
    IF observer = "running"
    THEN LET made == {q \in DOMAIN after \ DOMAIN before : dirname(q) = source_folder}
         IN  IF made = {} THEN <<>> ELSE <<CHOOSE q \in made : TRUE>>
    ELSE <<>>

\* lines 43-44: os.makedirs(dest_folder_path, exist_ok=True), outside any try
organize_makedirs(t) ==
    /\ opc[t] = "makedirs"
    /\ Runs(t)
    /\ IF ~makedirs_wanted
       THEN /\ opc' = [opc EXCEPT ![t] = "exists"]
            /\ UNCHANGED <<fs, queue, raised, pc, observer, arg, dfolder, dfile>>
       ELSE IF makedirs_ok(fs, dfolder[t])
       THEN /\ fs' = makedirs(fs, dfolder[t])
            /\ queue' = queue \o dir_events(fs, fs')
            /\ opc' = [opc EXCEPT ![t] = "exists"]
            /\ UNCHANGED <<raised, pc, observer, arg, dfolder, dfile>>
       ELSE \* FileExistsError / NotADirectoryError leaves organize_file
            /\ raised' = raised \cup {t}
            /\ IF t = "main"
               THEN ProcessDies
               ELSE /\ observer' = "dead"
                    /\ Return(t)
                    /\ UNCHANGED pc
            /\ UNCHANGED <<fs, queue>>
    /\ UNCHANGED <<clock, log, out, verbose, dry_run, no_initial_scan, destinations,
                   todo, listing, visits, interrupted, nextId, creates, removes,
                   cl_e, cl_r>>

\* lines 51-53: the name a duplicate is moved to
new_file_name(file_name, now) ==
    splitext(file_name)[1] \o <<95>> \o strftime(now) \o splitext(file_name)[2]

\* faulty variant: the candidate path is used even when it is taken
dest_file_path_candidate(folder_path, file_name, taken, now) == join(folder_path, file_name)

\* lines 46-58: dest_file_path, given whether the candidate path exists
dest_file_path(folder_path, file_name, taken, now) ==
    IF taken THEN join(folder_path, new_file_name(file_name, now))
    ELSE join(folder_path, file_name)

\* lines 46-63: the collision check and the log line
organize_exists(t) ==
    /\ opc[t] = "exists"
    /\ Runs(t)
    /\ LET taken == exists(fs, join(dfolder[t], basename(arg[t])))
       IN  /\ dfile' = [dfile EXCEPT ![t] =
                          dest_file_path(dfolder[t], basename(arg[t]), taken, clock)]
           /\ log' = Log(IF taken THEN "duplicate" ELSE "moving")
    /\ out' = echo(verbose \/ dry_run)
    /\ opc' = [opc EXCEPT ![t] = "move"]
    /\ UNCHANGED <<fs, clock, verbose, dry_run, no_initial_scan, destinations, pc, todo,
                   listing, visits, observer, queue, arg, dfolder, raised, interrupted,
                   nextId, creates, removes, cl_e, cl_r>>

\* line 65: the guard of shutil.move
move_wanted == ~dry_run

\* lines 65-76: shutil.move inside try / except Exception
organize_move(t) ==
    /\ opc[t] = "move"
    /\ Runs(t)
    /\ IF ~move_wanted
       THEN UNCHANGED <<fs, log, out>>
       ELSE IF move_ok(fs, arg[t], dfile[t])
       THEN /\ fs' = move(fs, arg[t], dfile[t])
            /\ log' = Log("success")
            /\ out' = echo(verbose)
       ELSE /\ log' = Log("error")
            /\ out' = echo(verbose)
            /\ UNCHANGED fs
    /\ Return(t)
    /\ UNCHANGED <<clock, verbose, dry_run, no_initial_scan, destinations, pc, todo,
                   listing, visits, observer, queue, raised, interrupted, nextId,
                   creates, removes, cl_e, cl_r>>

---------------------------------------------------------------------------
(* main: start-up, the initial scan, the observer, the wait loop *)

\* faulty variant: the observer is started before the initial scan
NextPc_observer_first(p) ==
    CASE p = "start" -> "observe"
      [] p = "observe" -> IF no_initial_scan THEN "watchlog" ELSE "scan_begin"
      [] p = "scan" -> "watchlog"
      [] p = "watchlog" -> "sleep"

\* the order of main's phases: lines 119-123, 126-127, 129-132, 134-136, 138-140
NextPc(p) ==
    CASE p = "start" -> IF no_initial_scan THEN "observe" ELSE "scan_begin"
      [] p = "scan" -> "observe"
      [] p = "observe" -> "watchlog"
      [] p = "watchlog" -> "sleep"

\* lines 119-123: create the source folder if it does not exist
create_source ==
    /\ pc = "start"
    /\ IF ~exists(fs, source_folder)
       THEN /\ fs' = makedirs(fs, source_folder)
            /\ log' = Log("created_source")
            /\ out' = echo(verbose \/ dry_run)
       ELSE UNCHANGED <<fs, log, out>>
    /\ pc' = NextPc("start")
    /\ UNCHANGED <<clock, verbose, dry_run, no_initial_scan, destinations, todo, listing,
                   visits, observer, queue, opc, arg, dfolder, dfile, raised,
                   interrupted, nextId, creates, removes, cl_e, cl_r>>

\* lines 91-94: the start marker and os.listdir(source_folder), read once
scan_begin ==
    /\ pc = "scan_begin"
    /\ log' = Log("scan_start")
    /\ out' = echo(verbose \/ dry_run)
    /\ todo' = listdir(fs, source_folder)
    /\ listing' = [n \in listdir(fs, source_folder) |-> fs[join(source_folder, n)]]
    /\ visits' = [n \in listdir(fs, source_folder) |-> 0]
    /\ pc' = "scan"
    /\ UNCHANGED <<fs, clock, verbose, dry_run, no_initial_scan, destinations, observer,
                   queue, opc, arg, dfolder, dfile, raised, interrupted, nextId, creates,
                   removes, cl_e, cl_r>>

\* lines 94-96: the loop takes the next entry, in any order, and calls organize_file
scan_call ==
    /\ pc = "scan"
    /\ opc["main"] = "idle"
    /\ \E item \in todo :
          /\ todo' = todo \ {item}
          /\ visits' = [visits EXCEPT ![item] = @ + 1]
          /\ arg' = [arg EXCEPT !["main"] = join(source_folder, item)]
    /\ opc' = [opc EXCEPT !["main"] = "isfile"]
    /\ UNCHANGED <<fs, clock, log, out, verbose, dry_run, no_initial_scan, destinations,
                   pc, listing, observer, queue, dfolder, dfile, raised, interrupted,
                   nextId, creates, removes, cl_e, cl_r>>

\* lines 97-99: the loop is over
scan_end ==
    /\ pc = "scan"
    /\ opc["main"] = "idle"
    /\ todo = {}
    /\ log' = Log("scan_complete")
    /\ out' = echo(verbose \/ dry_run)
    /\ pc' = NextPc("scan")
    /\ UNCHANGED <<fs, clock, verbose, dry_run, no_initial_scan, destinations, todo,
                   listing, visits, observer, queue, opc, arg, dfolder, dfile, raised,
                   interrupted, nextId, creates, removes, cl_e, cl_r>>

\* lines 129-132: the handler, observer.schedule(recursive=False), observer.start()
start_observer ==
    /\ pc = "observe"
    /\ observer' = "running"
    /\ pc' = NextPc("observe")
    /\ UNCHANGED <<fs, clock, log, out, verbose, dry_run, no_initial_scan, destinations,
                   todo, listing, visits, queue, opc, arg, dfolder, dfile, raised,
                   interrupted, nextId, creates, removes, cl_e, cl_r>>

\* lines 134-136: the "Watching ..." line, before the try block is entered
watch_log ==
    /\ pc = "watchlog"
    /\ log' = Log("watching")
    /\ out' = echo(verbose \/ dry_run)
    /\ pc' = NextPc("watchlog")
    /\ UNCHANGED <<fs, clock, verbose, dry_run, no_initial_scan, destinations, todo,
                   listing, visits, observer, queue, opc, arg, dfolder, dfile, raised,
                   interrupted, nextId, creates, removes, cl_e, cl_r>>

\* the phases of main in which `except KeyboardInterrupt` is in force (lines 138-141)
catches_interrupt(p) == p = "sleep"

\* a KeyboardInterrupt reaches the main thread.  Inside the try block (lines
\* 138-145) it stops the observer and logs the termination line; anywhere else it
\* leaves main().
interrupt ==
    /\ pc \notin {"join", "done", "crashed"}
    /\ ~interrupted
    /\ interrupted' = TRUE
    /\ IF catches_interrupt(pc)
       THEN /\ observer' = IF observer = "running" THEN "stopped" ELSE observer
            /\ log' = Log("stopped")
            /\ out' = echo(verbose \/ dry_run)
            /\ pc' = "join"
            /\ UNCHANGED <<opc, arg, dfolder, dfile>>
       ELSE /\ ProcessDies
            /\ UNCHANGED <<log, out>>
    /\ UNCHANGED <<fs, clock, verbose, dry_run, no_initial_scan, destinations, todo,
                   listing, visits, queue, raised, nextId, creates, removes, cl_e, cl_r>>

\* line 146: observer.join() returns once the observer thread has ended
join_observer ==
    /\ pc = "join"
    /\ opc["obs"] = "idle"
    /\ pc' = "done"
    /\ UNCHANGED <<fs, clock, log, out, verbose, dry_run, no_initial_scan, destinations,
                   todo, listing, visits, observer, queue, opc, arg, dfolder, dfile,
                   raised, interrupted, nextId, creates, removes, cl_e, cl_r>>

\* lines 85-87: the observer thread takes the oldest event and runs on_created
on_created ==
    /\ observer = "running"
    /\ opc["obs"] = "idle"
    /\ queue # <<>>
    /\ arg' = [arg EXCEPT !["obs"] = Head(queue)]
    /\ queue' = Tail(queue)
    /\ opc' = [opc EXCEPT !["obs"] = "isfile"]
    /\ UNCHANGED <<fs, clock, log, out, verbose, dry_run, no_initial_scan, destinations,
                   pc, todo, listing, visits, observer, dfolder, dfile, raised,
                   interrupted, nextId, creates, removes, cl_e, cl_r>>

---------------------------------------------------------------------------
(* The environment: the user's files and the clock *)

Alive == pc \notin {"done", "crashed"}

\* a file appears in the source folder; a running observer queues its creation event
user_creates ==
    /\ Alive
    /\ creates < MaxCreates
    /\ isdir(fs, source_folder)
    /\ \E n \in CreateNames :
          /\ ~exists(fs, join(source_folder, n))
          /\ fs' = create(fs, join(source_folder, n), nextId)
          /\ queue' = IF observer = "running" THEN Append(queue, join(source_folder, n))
                      ELSE queue
    /\ nextId' = nextId + 1
    /\ creates' = creates + 1
    /\ UNCHANGED <<clock, log, out, verbose, dry_run, no_initial_scan, destinations, pc,
                   todo, listing, visits, observer, opc, arg, dfolder, dfile, raised,
                   interrupted, removes, cl_e, cl_r>>

\* the user deletes a regular file of the source folder
user_removes ==
    /\ Alive
    /\ removes < MaxRemoves
    /\ \E n \in listdir(fs, source_folder) :
          /\ isfile(fs, join(source_folder, n))
          /\ truthy(get_destination_folder(splitext(n)[2], destinations))
          /\ fs' = remove(fs, join(source_folder, n))
    /\ removes' = removes + 1
    /\ UNCHANGED <<clock, log, out, verbose, dry_run, no_initial_scan, destinations, pc,
                   todo, listing, visits, observer, queue, opc, arg, dfolder, dfile,
                   raised, interrupted, nextId, creates, cl_e, cl_r>>

\* a second passes
tick ==
    /\ Alive
    /\ clock < MaxClock
    /\ clock' = clock + 1
    /\ UNCHANGED <<fs, log, out, verbose, dry_run, no_initial_scan, destinations, pc,
                   todo, listing, visits, observer, queue, opc, arg, dfolder, dfile,
                   raised, interrupted, nextId, creates, removes, cl_e, cl_r>>

---------------------------------------------------------------------------

Next ==
    \/ create_source
    \/ scan_begin
    \/ scan_call
    \/ scan_end
    \/ start_observer
    \/ watch_log
    \/ interrupt
    \/ join_observer
    \/ on_created
    \/ \E t \in Threads : organize_check(t)
    \/ \E t \in Threads : organize_makedirs(t)
    \/ \E t \in Threads : organize_exists(t)
    \/ \E t \in Threads : organize_move(t)
    \/ user_creates
    \/ user_removes
    \/ tick

Spec == Init /\ [][Next]_vars

---------------------------------------------------------------------------
(* The classifier on its own: any extension, any of the destination maps *)

InitClassify ==
    /\ InitShared
    /\ fs = <<>>
    /\ verbose = FALSE
    /\ dry_run = FALSE
    /\ no_initial_scan = FALSE
    /\ pc = "done"
    /\ destinations \in DestMaps
    /\ cl_e \in StringsUpTo(MaxExtLen)
    /\ cl_r = <<>>

classify ==
    /\ cl_r = <<>>
    /\ cl_r' = <<get_destination_folder(cl_e, destinations)>>
    /\ UNCHANGED <<fs, clock, log, out, verbose, dry_run, no_initial_scan, destinations,
                   pc, todo, listing, visits, observer, queue, opc, arg, dfolder, dfile,
                   raised, interrupted, nextId, creates, removes, cl_e>>

SpecClassify == InitClassify /\ [][classify]_vars

(* The initial scan on a filesystem the user deletes nothing from *)

NextScan ==
    \/ create_source
    \/ scan_begin
    \/ scan_call
    \/ scan_end
    \/ organize_check("main")
    \/ organize_makedirs("main")
    \/ organize_exists("main")
    \/ organize_move("main")
    \/ user_creates
    \/ tick

SpecScan == Init /\ [][NextScan]_vars

---------------------------------------------------------------------------
(* Properties *)

\* a step of an organize_file call
OrganizeStep(t) ==
    organize_check(t) \/ organize_makedirs(t) \/ organize_exists(t) \/ organize_move(t)

\* the positions of `dests` whose extension set holds the lowercased extension
Hits(e, dests) == {i \in 1..Len(dests) : [k \in 1..Len(e) |-> lower_char(e[k])] \in dests[i][2]}

\* name is root_<14 digits>ext for the root and ext of file_name
Timestamped(name, file_name) ==
    LET dot == rfind(file_name, 46)
        cut == IF \E k \in 1..(dot - 1) : file_name[k] # 46 THEN dot - 1 ELSE Len(file_name)
    IN  /\ Len(name) = Len(file_name) + 15
        /\ SubSeq(name, 1, cut) = SubSeq(file_name, 1, cut)
        /\ name[cut + 1] = 95
        /\ \A k \in (cut + 2)..(cut + 15) : name[k] >= 48 /\ name[k] <= 57
        /\ SubSeq(name, cut + 16, Len(name)) = SubSeq(file_name, cut + 1, Len(file_name))

\* the paths inside the destination folders of the configuration
InDestination(path) ==
    dirname(path) \in {join(source_folder, folder_i), <<folder_d>>}

\* C1: in a dry run no step of organize_file changes the filesystem: no directory
\* is created, no file is moved, renamed, created or deleted.
C1_DryRunLeavesFilesystem ==
    [][dry_run => \A t \in Threads : OrganizeStep(t) => fs' = fs]_vars

\* a dry run has handled a matching file whose destination folder does not exist
C1_Witness ==
    /\ dry_run
    /\ log["moving"] > 0
    /\ opc = Idle
    /\ ~exists(fs, join(source_folder, folder_i))
    /\ isfile(fs, join(source_folder, n_aJ))

\* C2: no failure while organizing one file propagates out of organize_file.
C2_NoFailurePropagates == raised = {}

\* C4: get_destination_folder returns the first folder, in the map's order, whose
\* extension set holds the lowercased extension, and None when no set holds it;
\* an extension in exactly one set gets that folder; the empty extension gets None.
C4_FirstMatch ==
    cl_r # <<>> =>
        LET hits == Hits(cl_e, destinations)
        IN  /\ hits = {} => cl_r[1] = None
            /\ hits # {} => \E i \in hits : /\ \A j \in hits : i <= j
                                            /\ cl_r[1] = destinations[i][1]
            /\ \A i \in hits : hits = {i} => cl_r[1] = destinations[i][1]
            /\ cl_e = <<>> => cl_r[1] = None

\* the extension .J was classified into the folder that lists .j
C4_Witness ==
    /\ cl_e = <<46, 74>>
    /\ destinations = MainMap
    /\ cl_r = <<folder_i>>

\* the path a file would get in its destination folder under its own name
Candidate(t) == join(dfolder[t], basename(arg[t]))

\* C3: when the base name of the file is already taken in the destination folder
\* and the move is made, the incoming file ends up in that folder under
\* <base>_<14 digits><ext>, and the file that held the name is still there with
\* its content.
C3_CollisionRename ==
    [][\A t \in Threads :
          (organize_move(t) /\ fs' # fs /\ exists(fs, Candidate(t))) =>
              /\ arg[t] \notin DOMAIN fs'
              /\ Candidate(t) \in DOMAIN fs'
              /\ fs'[Candidate(t)] = fs[Candidate(t)]
              /\ \E p \in DOMAIN fs' :
                    /\ dirname(p) = dirname(Candidate(t))
                    /\ Timestamped(basename(p), basename(arg[t]))
                    /\ fs'[p] = fs[arg[t]]]_vars

\* i holds the a.J it held at start-up and, under a timestamped name, the a.J
\* that was in the source folder
C3_Witness ==
    /\ log["duplicate"] = 1
    /\ log["success"] = 1
    /\ exists(fs, Append(join(source_folder, folder_i), n_aJ))
    /\ fs[Append(join(source_folder, folder_i), n_aJ)] = 4
    /\ \E p \in DOMAIN fs :
          /\ dirname(p) = join(source_folder, folder_i)
          /\ Timestamped(basename(p), n_aJ)
          /\ fs[p] = 1

\* the file named is not a regular file, or its extension is in no extension set
Skipped(path) ==
    \/ ~(path \in DOMAIN fs /\ fs[path] > 0)
    \/ Hits(splitext(basename(path))[2], destinations) = {}

\* C5: organize_file on a path that is no regular file, or on a file whose
\* extension matches no destination, returns at once and changes nothing: no
\* directory, no file, no log line, no console line.
C5_SkipChangesNothing ==
    [][\A t \in Threads :
          (organize_check(t) /\ Skipped(arg[t])) =>
              /\ opc'[t] = "idle"
              /\ fs' = fs
              /\ log' = log
              /\ out' = out]_vars

\* the scan has called organize_file on the subdirectory d.J, which is still
\* there, and nothing but the scan's start marker is in the log
C5_Witness ==
    /\ pc = "scan"
    /\ n_dJ \in DOMAIN visits
    /\ visits[n_dJ] = 1
    /\ opc["main"] = "idle"
    /\ isdir(fs, join(source_folder, n_dJ))
    /\ log = [[k \in LogKinds |-> 0] EXCEPT !["scan_start"] = 1]

\* the destination folder the configuration maps a file name to
ExpectedFolder(name) ==
    IF lower(splitext(name)[2]) = ext_j THEN join(source_folder, folder_i) ELSE <<folder_d>>

\* the entries of the listing that are regular files with a matching extension
ToMove == {n \in DOMAIN listing : listing[n] > 0 /\ Hits(splitext(n)[2], destinations) # {}}

\* C6: the scan lists the source folder once and calls organize_file once on
\* each entry; when it ends (no dry run, no failed move) every regular file of
\* the listing with a matching extension is in its destination folder, every
\* other entry is still in the source folder as it was, and one "Moving" or
\* "Duplicate" line was logged per moved file.
C6_ScanMovesListing ==
    (pc = "observe" /\ ~no_initial_scan /\ ~dry_run /\ log["error"] = 0) =>
        /\ log["scan_start"] = 1
        /\ DOMAIN visits = DOMAIN listing
        /\ \A n \in DOMAIN listing : visits[n] = 1
        /\ \A n \in ToMove :
              /\ \E p \in DOMAIN fs : dirname(p) = ExpectedFolder(n) /\ fs[p] = listing[n]
              /\ ~(exists(fs, join(source_folder, n)) /\ fs[join(source_folder, n)] = listing[n])
        /\ \A n \in DOMAIN listing \ ToMove :
              /\ exists(fs, join(source_folder, n))
              /\ fs[join(source_folder, n)] = listing[n]
        /\ log["moving"] + log["duplicate"] = Cardinality(ToMove)
        /\ log["success"] = Cardinality(ToMove)

\* the scan of a.J, b.p and c.t has ended: a.J is in i, b.p is in /d, c.t is
\* where it was, and two "Moving" lines are in the log
C6_Witness ==
    /\ pc = "observe"
    /\ ~dry_run
    /\ DOMAIN listing = {n_aJ, n_bp, n_ct}
    /\ isfile(fs, Append(join(source_folder, folder_i), n_aJ))
    /\ isfile(fs, <<folder_d, n_bp>>)
    /\ isfile(fs, join(source_folder, n_ct))
    /\ log["moving"] = 2
    /\ log["duplicate"] = 0

\* C7: an interrupt received at any point of the run stops the watcher: the
\* termination line is logged, the observer is stopped and main goes on to
\* observer.join() and returns.
C7_InterruptStopsWatcher ==
    interrupted =>
        /\ log["stopped"] = 1
        /\ observer \in {"stopped", "dead"}
        /\ pc \in {"join", "done"}

\* C8: with the initial scan on, no dry run and no failure, once the watcher runs
\* and has nothing left to handle, no regular file with a matching extension is
\* left in the source folder.
C8_EveryFileMoved ==
    ( /\ ~dry_run
      /\ ~no_initial_scan
      /\ log["error"] = 0
      /\ raised = {}
      /\ ~interrupted
      /\ pc = "sleep"
      /\ observer = "running"
      /\ queue = <<>>
      /\ opc = Idle ) =>
        \A n \in listdir(fs, source_folder) :
            isfile(fs, join(source_folder, n)) => Hits(splitext(n)[2], destinations) = {}

\* C9: at most one organize_file call is active at any moment: the scan's calls
\* are over before the observer is started, and the main thread makes none after.
C9_SingleActiveCall ==
    /\ Cardinality({t \in Threads : opc[t] # "idle"}) <= 1
    /\ opc["main"] # "idle" => observer = "none" /\ pc = "scan"
    /\ observer # "none" => todo = {} /\ pc \notin {"start", "scan_begin", "scan"}

\* after a scan that moved a file, the observer thread is inside organize_file,
\* between the collision check and the move, while main sleeps
C9_Witness ==
    /\ opc["obs"] = "move"
    /\ pc = "sleep"
    /\ log["scan_complete"] = 1
    /\ log["success"] >= 1

\* a step keeps every file of the destination folders, name and content
KeepsDestinationFiles ==
    \A p \in DOMAIN fs : InDestination(p) => p \in DOMAIN fs' /\ fs'[p] = fs[p]

\* a move that is made adds exactly one name to the destination folder
AddsOneName(t) ==
    (organize_move(t) /\ fs' # fs) =>
        \E p \in DOMAIN fs' \ DOMAIN fs :
            /\ DOMAIN fs' = (DOMAIN fs \ {arg[t]}) \cup {p}
            /\ dirname(p) = dfolder[t]
            /\ fs'[p] = fs[arg[t]]

\* thread t is about to move its file onto a timestamped name that is taken
OntoTakenTimestamp(t) ==
    /\ opc[t] = "move"
    /\ exists(fs, dfile[t])
    /\ Timestamped(basename(dfile[t]), basename(arg[t]))

\* C10 as claimed: no step loses or overwrites a file of a destination folder,
\* and every move that is made adds exactly one new name to it.
C10_NoFileLost ==
    [][KeepsDestinationFiles /\ \A t \in Threads : AddsOneName(t)]_vars

\* C10 as amended: the same, except for a move onto a timestamped name that is
\* already taken; that move replaces the file of that name alone and adds no name.
C10_NoFileLostButTimestampClash ==
    [][IF \E t \in Threads : organize_move(t) /\ OntoTakenTimestamp(t)
       THEN \A t \in Threads :
               (organize_move(t) /\ OntoTakenTimestamp(t)) =>
                   /\ \A p \in DOMAIN fs \ {dfile[t]} :
                         InDestination(p) => p \in DOMAIN fs' /\ fs'[p] = fs[p]
                   /\ fs' # fs => /\ DOMAIN fs' = DOMAIN fs \ {arg[t]}
                                  /\ fs'[dfile[t]] = fs[arg[t]]
       ELSE KeepsDestinationFiles /\ \A t \in Threads : AddsOneName(t)]_vars

\* two a.J were moved into i, which held an a.J, within one second: the second
\* took the timestamped name of the first, whose content is nowhere any more
C10_Witness ==
    /\ log["duplicate"] = 2
    /\ log["success"] = 2
    /\ removes = 0
    /\ \A p \in DOMAIN fs : fs[p] # 1
    /\ \E p \in DOMAIN fs :
          /\ dirname(p) = join(source_folder, folder_i)
          /\ Timestamped(basename(p), n_aJ)
          /\ fs[p] >= 6

====
